---- MODULE Spec2Model ----
(***************************************************************************)
(* Form-X (src/main.py): the string formatter application.                 *)
(*                                                                         *)
(* Python strings are modelled as sequences of one-character strings, a    *)
(* list of strings as a sequence of such sequences.  Python's None is the  *)
(* value PyNone, which is no character sequence.                           *)
(***************************************************************************)
EXTENDS Integers, Sequences, FiniteSets

VARIABLES
    input_text,        \* content of the input Text widget (main.py:147)
    output_text,       \* content of the output Text widget (main.py:340)
    separator_var,     \* self.separator_var (main.py:111)
    format_type,       \* self.format_type (main.py:108)
    dict_key_type,     \* self.dict_key_type (main.py:112)
    user_prefix,       \* content of the prefix Entry (main.py:323)
    prefix_state,      \* state of the prefix Entry: "normal" / "disabled"
    dict_state,        \* state of the dictionary key radio buttons
    status_indicator,  \* colour of the status indicator (main.py:178)
    message,           \* the message box shown by the handler that ran last
    pc,                \* the handler or function that ran last
    arg_items,         \* argument of a direct call on an item list
    ret                \* value returned by a direct call of a function

vars == <<input_text, output_text, separator_var, format_type, dict_key_type,
          user_prefix, prefix_state, dict_state, status_indicator, message,
          pc, arg_items, ret>>

widgets == <<output_text, format_type, dict_key_type, user_prefix,
             prefix_state, dict_state, status_indicator, message>>

(***************************************************************************)
(* Bounds                                                                  *)
(***************************************************************************)
MaxLen == 4          \* longest raw text given to the core functions
MaxItems == 2        \* longest item list given to the round trip
MaxItemLen == 2      \* longest item of such a list
MaxProcLen == 3      \* longest input text of a process_string call

(***************************************************************************)
(* Characters                                                              *)
(***************************************************************************)
Whitespace == {" ", "\n"}
Chars == {"a", "n", "/", ","} \cup Whitespace
Alnum == {"a", "n", "k", "0", "1", "2", "3", "4", "5", "6", "7", "8", "9"}

PyNone == <<"None">>

RECURSIVE TextsOfLen(_)
TextsOfLen(k) ==
    IF k = 0 THEN {<<>>}
    ELSE {Append(t, c) : t \in TextsOfLen(k - 1), c \in Chars}

RECURSIVE TextsUpTo(_)
TextsUpTo(k) == IF k = 0 THEN {<<>>} ELSE TextsOfLen(k) \cup TextsUpTo(k - 1)

(***************************************************************************)
(* Python string primitives                                                *)
(***************************************************************************)
RECURSIVE lstrip(_)
lstrip(s) ==
    IF s # <<>> /\ Head(s) \in Whitespace THEN lstrip(Tail(s)) ELSE s

RECURSIVE rstrip(_)
rstrip(s) ==
    IF s # <<>> /\ s[Len(s)] \in Whitespace
    THEN rstrip(SubSeq(s, 1, Len(s) - 1)) ELSE s

\* str.strip()
strip(s) == rstrip(lstrip(s))

\* str.count(c) for a one-character c
count(s, c) == Cardinality({i \in 1..Len(s) : s[i] = c})

\* c in s
contains(s, c) == \E i \in 1..Len(s) : s[i] = c

\* re.sub(r'/n', ' ', s): leftmost non-overlapping occurrences
RECURSIVE sub_marker(_)
sub_marker(s) ==
    IF s = <<>> THEN <<>>
    ELSE IF Len(s) >= 2 /\ s[1] = "/" /\ s[2] = "n"
         THEN <<" ">> \o sub_marker(SubSeq(s, 3, Len(s)))
         ELSE <<Head(s)>> \o sub_marker(Tail(s))

\* re.sub(r'\s+', ' ', s)
RECURSIVE sub_spaces(_)
sub_spaces(s) ==
    IF s = <<>> THEN <<>>
    ELSE IF Head(s) \in Whitespace
         THEN <<" ">> \o sub_spaces(lstrip(s))
         ELSE <<Head(s)>> \o sub_spaces(Tail(s))

\* re.sub(r'[^a-zA-Z0-9\s]', '', s)
RECURSIVE sub_non_alnum(_)
sub_non_alnum(s) ==
    IF s = <<>> THEN <<>>
    ELSE IF Head(s) \in Alnum \cup Whitespace
         THEN <<Head(s)>> \o sub_non_alnum(Tail(s))
         ELSE sub_non_alnum(Tail(s))

\* index of the first c in s, 0 when there is none
first_index(s, c) ==
    IF contains(s, c)
    THEN CHOOSE i \in 1..Len(s) : s[i] = c /\ \A j \in 1..(i - 1) : s[j] # c
    ELSE 0

\* str.split(sep) for a one-character sep: empty pieces are kept
RECURSIVE split_on(_, _)
split_on(s, sep) ==
    LET i == first_index(s, sep)
    IN  IF i = 0 THEN <<s>>
        ELSE <<SubSeq(s, 1, i - 1)>> \o split_on(SubSeq(s, i + 1, Len(s)), sep)

\* index of the first whitespace character of s, Len(s) + 1 when none
first_space(s) ==
    IF \E i \in 1..Len(s) : s[i] \in Whitespace
    THEN CHOOSE i \in 1..Len(s) :
             s[i] \in Whitespace /\ \A j \in 1..(i - 1) : s[j] \notin Whitespace
    ELSE Len(s) + 1

\* str.split(): runs of whitespace separate, no empty pieces
RECURSIVE split(_)
split(s) ==
    LET t == lstrip(s)
        i == first_space(t)
    IN  IF t = <<>> THEN <<>>
        ELSE <<SubSeq(t, 1, i - 1)>> \o split(SubSeq(t, i, Len(t)))

\* sep.join(parts)
RECURSIVE join(_, _)
join(sep, parts) ==
    IF parts = <<>> THEN <<>>
    ELSE IF Len(parts) = 1 THEN parts[1]
    ELSE parts[1] \o sep \o join(sep, Tail(parts))

\* strip_nonempty that keeps the pieces as they are: [p for p in parts if strip(p)]
RECURSIVE strip_nonempty_unstripped(_)
strip_nonempty_unstripped(parts) ==
    IF parts = <<>> THEN <<>>
    ELSE IF strip(Head(parts)) # <<>>
         THEN <<Head(parts)>> \o strip_nonempty_unstripped(Tail(parts))
         ELSE strip_nonempty_unstripped(Tail(parts))

\* [strip(p) for p in parts if strip(p)]
RECURSIVE strip_nonempty(_)
strip_nonempty(parts) ==
    IF parts = <<>> THEN <<>>
    ELSE IF strip(Head(parts)) # <<>>
         THEN <<strip(Head(parts))>> \o strip_nonempty(Tail(parts))
         ELSE strip_nonempty(Tail(parts))

Digit == <<"0", "1", "2", "3", "4", "5", "6", "7", "8", "9">>

\* str(n) for n >= 0
RECURSIVE str(_)
str(n) == IF n < 10 THEN <<Digit[n + 1]>> ELSE str(n \div 10) \o <<Digit[(n % 10) + 1]>>

(***************************************************************************)
(* String processing utilities                                             *)
(***************************************************************************)
\* auto_detect_separator asking for more commas than newlines
auto_detect_separator_strict(input_string) ==
    IF input_string = <<>> THEN " "
    ELSE LET comma_count == count(input_string, ",")
             newline_count == count(input_string, "\n")
         IN  IF comma_count > 0 /\ comma_count > newline_count THEN ","
             ELSE IF newline_count > 0 THEN "\n"
             ELSE " "

auto_detect_separator(input_string) ==
    IF input_string = <<>> THEN " "
    ELSE LET comma_count == count(input_string, ",")
             newline_count == count(input_string, "\n")
         IN  IF comma_count > 0 /\ comma_count >= newline_count THEN ","
             ELSE IF newline_count > 0 THEN "\n"
             ELSE " "

\* clean without the collapse of whitespace runs
clean_keeping_newlines(input_string) == strip(sub_marker(input_string))

\* cleaned text of clean_and_split_string
clean(input_string) == strip(sub_spaces(sub_marker(input_string)))

\* clean_and_split_string splitting on the comma under the comma choice
clean_and_split_string_on_comma(input_string, sep_type) ==
    LET cleaned == clean(input_string)
    IN  IF sep_type = "auto"
        THEN strip_nonempty(split_on(cleaned, auto_detect_separator(cleaned)))
        ELSE IF sep_type = "comma"
        THEN strip_nonempty(split_on(cleaned, ","))
        ELSE strip_nonempty(split(cleaned))

\* clean_and_split_string detecting the separator under every choice
clean_and_split_string_detecting(input_string, sep_type) ==
    LET cleaned == clean(input_string)
    IN  strip_nonempty(split_on(cleaned, auto_detect_separator(cleaned)))

clean_and_split_string(input_string, sep_type) ==
    LET cleaned == clean(input_string)
    IN  IF sep_type = "auto"
        THEN strip_nonempty(split_on(cleaned, auto_detect_separator(cleaned)))
        ELSE IF sep_type \in {"space", "comma", "newline"}
        THEN strip_nonempty(split(cleaned))
        ELSE strip_nonempty(split(cleaned))

RECURSIVE count_actual_content(_)
count_actual_content(items) ==
    IF items = <<>> THEN 0
    ELSE Len(strip_nonempty(split(sub_non_alnum(Head(items)))))
         + count_actual_content(Tail(items))

(***************************************************************************)
(* Formatting methods                                                      *)
(***************************************************************************)
\* ['"' + item + '"' for item in items]
RECURSIVE quoted(_)
quoted(items) ==
    IF items = <<>> THEN <<>>
    ELSE <<<<"\"">> \o Head(items) \o <<"\"">>>> \o quoted(Tail(items))

format_items_as_string(items) == join(<<",", " ">>, quoted(items))

format_as_list(items) == <<"[">> \o format_items_as_string(items) \o <<"]">>

format_as_tuple(items) == <<"(">> \o format_items_as_string(items) \o <<")">>

\* '"<key>": "<value>"'
dict_entry(key, value) ==
    <<"\"">> \o key \o <<"\"", ":", " ", "\"">> \o value \o <<"\"">>

\* dict_entries numbering the generated keys from 0
RECURSIVE dict_entries_from_zero(_, _, _, _)
dict_entries_from_zero(items, i, key_type, prefix) ==
    IF i > Len(items) THEN <<>>
    ELSE LET item == items[i]
             words == split(item)
             entry ==
                 IF key_type = "index" THEN dict_entry(str(i - 1), item)
                 ELSE IF key_type = "auto"
                 THEN dict_entry(<<"i", "t", "e", "m", "_">> \o str(i - 1), item)
                 ELSE IF key_type = "user_defined"
                 THEN dict_entry(prefix \o <<"_">> \o str(i - 1), item)
                 ELSE IF words # <<>>
                 THEN dict_entry(words[1],
                                 IF Len(words) > 1
                                 THEN join(<<" ">>, Tail(words)) ELSE item)
                 ELSE dict_entry(item, item)
         IN  <<entry>> \o dict_entries_from_zero(items, i + 1, key_type, prefix)

\* dict_entries giving the words after the first as value of every item
RECURSIVE dict_entries_rest_only(_, _, _, _)
dict_entries_rest_only(items, i, key_type, prefix) ==
    IF i > Len(items) THEN <<>>
    ELSE LET item == items[i]
             words == split(item)
             entry ==
                 IF key_type = "index" THEN dict_entry(str(i - 1), item)
                 ELSE IF key_type = "auto"
                 THEN dict_entry(<<"i", "t", "e", "m", "_">> \o str(i), item)
                 ELSE IF key_type = "user_defined"
                 THEN dict_entry(prefix \o <<"_">> \o str(i), item)
                 ELSE IF words # <<>>
                 THEN dict_entry(words[1], join(<<" ">>, Tail(words)))
                 ELSE dict_entry(item, item)
         IN  <<entry>> \o dict_entries_rest_only(items, i + 1, key_type, prefix)

\* the entries of format_as_dict for the items from position i on
RECURSIVE dict_entries(_, _, _, _)
dict_entries(items, i, key_type, prefix) ==
    IF i > Len(items) THEN <<>>
    ELSE LET item == items[i]
             words == split(item)
             entry ==
                 IF key_type = "index" THEN dict_entry(str(i - 1), item)
                 ELSE IF key_type = "auto"
                 THEN dict_entry(<<"i", "t", "e", "m", "_">> \o str(i), item)
                 ELSE IF key_type = "user_defined"
                 THEN dict_entry(prefix \o <<"_">> \o str(i), item)
                 ELSE IF words # <<>>
                 THEN dict_entry(words[1],
                                 IF Len(words) > 1
                                 THEN join(<<" ">>, Tail(words)) ELSE item)
                 ELSE dict_entry(item, item)
         IN  <<entry>> \o dict_entries(items, i + 1, key_type, prefix)

\* value: the returned string or PyNone; message: the warning it shows
format_as_dict(items, key_type, prefix_text) ==
    LET prefix == strip(prefix_text)
    IN  IF key_type = "none" THEN [value |-> PyNone, message |-> "none"]
        ELSE IF key_type = "user_defined" /\ prefix = <<>>
        THEN [value |-> PyNone, message |-> "MissingPrefix"]
        ELSE IF key_type \in {"index", "auto", "user_defined", "first_word"}
        THEN [value |-> <<"{">>
                        \o join(<<",", " ">>,
                                dict_entries(items, 1, key_type, prefix))
                        \o <<"}">>,
              message |-> "none"]
        ELSE [value |-> PyNone, message |-> "none"]

\* format_with_separator_style joining with a space under auto
format_with_separator_style_auto(items, fmt, sep_type) ==
    IF sep_type = "comma" /\ fmt = "none" THEN join(<<",", " ">>, items)
    ELSE IF sep_type = "newline" /\ fmt = "none" THEN join(<<"\n">>, items)
    ELSE IF sep_type \in {"space", "auto"} /\ fmt = "none"
    THEN join(<<" ">>, items)
    ELSE PyNone

\* format_with_separator_style ending every item with the join string
format_with_separator_style_trailing(items, fmt, sep_type) ==
    IF sep_type = "comma" /\ fmt = "none"
    THEN join(<<",", " ">>, items) \o <<",", " ">>
    ELSE IF sep_type = "newline" /\ fmt = "none"
    THEN join(<<"\n">>, items) \o <<"\n">>
    ELSE IF sep_type = "space" /\ fmt = "none"
    THEN join(<<" ">>, items) \o <<" ">>
    ELSE PyNone

\* format_with_separator_style applying the manual styles to every format
format_with_separator_style_any_format(items, fmt, sep_type) ==
    IF sep_type = "comma" THEN join(<<",", " ">>, items)
    ELSE IF sep_type = "newline" THEN join(<<"\n">>, items)
    ELSE IF sep_type = "space" THEN join(<<" ">>, items)
    ELSE PyNone

format_with_separator_style(items, fmt, sep_type) ==
    IF sep_type = "comma" /\ fmt = "none" THEN join(<<",", " ">>, items)
    ELSE IF sep_type = "newline" /\ fmt = "none" THEN join(<<"\n">>, items)
    ELSE IF sep_type = "space" /\ fmt = "none" THEN join(<<" ">>, items)
    ELSE PyNone

(***************************************************************************)
(* Widgets                                                                 *)
(***************************************************************************)
\* Text.get(1.0, END): the content and the newline the widget ends with
text_get(content) == content \o <<"\n">>

\* Entry.delete(0, END): a disabled ttk.Entry ignores the command
entry_delete(state, text) == IF state = "normal" THEN <<>> ELSE text

ItemCountLabel == <<"I", "t", "e", "m", " ", "c", "o", "u", "n", "t", ":", " ">>

\* f"Item count: {content_count}\n\n"
item_count_line(content_count) ==
    ItemCountLabel \o str(content_count) \o <<"\n", "\n">>

(***************************************************************************)
(* Main processing method                                                  *)
(***************************************************************************)
\* process_body without the separator formatting of a dictionary without keys
process_body_count_only(items, sep_type, fmt, key_type, prefix_text) ==
    LET special_format == format_with_separator_style(items, fmt, sep_type)
        dict_result == format_as_dict(items, key_type, prefix_text)
    IN  IF special_format # PyNone
        THEN [body |-> special_format, message |-> "none"]
        ELSE IF fmt = "list"
        THEN [body |-> format_as_list(items), message |-> "none"]
        ELSE IF fmt = "dict"
        THEN IF dict_result.value # PyNone
             THEN [body |-> dict_result.value, message |-> dict_result.message]
             ELSE [body |-> <<>>, message |-> dict_result.message]
        ELSE IF fmt = "tuple"
        THEN [body |-> format_as_tuple(items), message |-> "none"]
        ELSE [body |-> <<>>, message |-> "none"]

\* body appended to the item count line by process_string, and the warning
\* shown on the way
process_body(items, sep_type, fmt, key_type, prefix_text) ==
    LET special_format == format_with_separator_style(items, fmt, sep_type)
        dict_result == format_as_dict(items, key_type, prefix_text)
        separator_format == format_with_separator_style(items, "none", sep_type)
    IN  IF special_format # PyNone
        THEN [body |-> special_format, message |-> "none"]
        ELSE IF fmt = "list"
        THEN [body |-> format_as_list(items), message |-> "none"]
        ELSE IF fmt = "dict"
        THEN IF dict_result.value # PyNone
             THEN [body |-> dict_result.value, message |-> dict_result.message]
             ELSE IF separator_format # PyNone
             THEN [body |-> separator_format, message |-> dict_result.message]
             ELSE [body |-> <<>>, message |-> dict_result.message]
        ELSE IF fmt = "tuple"
        THEN [body |-> format_as_tuple(items), message |-> "none"]
        ELSE [body |-> <<>>, message |-> "none"]

\* process_string_result clearing the output area before the item check
process_string_result_clearing(text, sep_type, fmt, key_type, prefix_text) ==
    LET input_string == strip(text_get(text))
        items == clean_and_split_string(input_string, sep_type)
        content_count == count_actual_content(items)
        b == process_body(items, sep_type, fmt, key_type, prefix_text)
    IN  IF input_string = <<>>
        THEN [message |-> "EmptyInput", written |-> FALSE, output |-> <<>>]
        ELSE IF items = <<>>
        THEN [message |-> "NoItemsFound", written |-> TRUE, output |-> <<>>]
        ELSE [message |-> b.message, written |-> TRUE,
              output |-> item_count_line(content_count) \o b.body]

\* outcome of process_string on the widget contents: the message box shown,
\* whether the output area is rewritten, and with what
process_string_result(text, sep_type, fmt, key_type, prefix_text) ==
    LET input_string == strip(text_get(text))
        items == clean_and_split_string(input_string, sep_type)
        content_count == count_actual_content(items)
        b == process_body(items, sep_type, fmt, key_type, prefix_text)
    IN  IF input_string = <<>>
        THEN [message |-> "EmptyInput", written |-> FALSE, output |-> <<>>]
        ELSE IF items = <<>>
        THEN [message |-> "NoItemsFound", written |-> FALSE, output |-> <<>>]
        ELSE [message |-> b.message, written |-> TRUE,
              output |-> item_count_line(content_count) \o b.body]

process_string ==
    LET r == process_string_result(input_text, separator_var, format_type,
                                   dict_key_type, user_prefix)
    IN  /\ message' = r.message
        /\ output_text' = IF r.written THEN r.output ELSE output_text
        /\ pc' = "process_string"
        /\ UNCHANGED <<input_text, separator_var, format_type, dict_key_type,
                       user_prefix, prefix_state, dict_state, status_indicator,
                       arg_items, ret>>

(***************************************************************************)
(* File and input operations                                               *)
(***************************************************************************)
Quotes == <<"\"", "\"", "\"">>

\* content.find('"""', start): 0-based index, -1 when there is none
find_quotes(content, start) ==
    LET hits == {i \in start..(Len(content) - 3) :
                     SubSeq(content, i + 1, i + 3) = Quotes}
    IN  IF hits = {} THEN -1
        ELSE CHOOSE i \in hits : \A j \in hits : i <= j

\* what example.py may hold; NoFile stands for a missing example.py
NoFile == <<"no such file">>
ExampleFiles ==
    { NoFile,
      <<"a">>,
      Quotes \o Quotes,
      Quotes \o <<"a">>,
      <<"n">> \o Quotes \o <<"a", " ", "n">> \o Quotes }

load_example ==
    /\ pc' = "load_example"
    /\ \E content \in ExampleFiles :
           LET start == find_quotes(content, 0) + 3
               end == find_quotes(content, start)
           IN  IF content = NoFile
               THEN /\ message' = "FileNotFound"
                    /\ UNCHANGED <<input_text, status_indicator>>
               ELSE IF start > 2 /\ end > start
               THEN /\ input_text' = SubSeq(content, start + 1, end)
                    /\ status_indicator' = "red"
                    /\ message' = "none"
               ELSE /\ message' = "NoExampleString"
                    /\ UNCHANGED <<input_text, status_indicator>>
    /\ UNCHANGED <<output_text, separator_var, format_type, dict_key_type,
                   user_prefix, prefix_state, dict_state, arg_items, ret>>

clear_input ==
    /\ input_text' = <<>>
    /\ status_indicator' = "red"
    /\ message' = "none"
    /\ pc' = "clear_input"
    /\ UNCHANGED <<output_text, separator_var, format_type, dict_key_type,
                   user_prefix, prefix_state, dict_state, arg_items, ret>>

clear_output ==
    /\ output_text' = <<>>
    /\ message' = "none"
    /\ pc' = "clear_output"
    /\ UNCHANGED <<input_text, separator_var, format_type, dict_key_type,
                   user_prefix, prefix_state, dict_state, status_indicator,
                   arg_items, ret>>

ProblematicChars == {",", ".", "/", ";", "'", "\"", "[", "]", "{", "}", "(", ")"}

\* analyze_string turning the indicator green before it looks at the input
analyze_string_always_green ==
    LET input_string == strip(text_get(input_text))
        found_chars == {c \in ProblematicChars : contains(input_string, c)}
    IN  /\ pc' = "analyze_string"
        /\ message' = IF input_string = <<>> THEN "NothingToAnalyze"
                      ELSE IF found_chars # {} THEN "ProblematicChars"
                      ELSE "NoProblematicChars"
        /\ status_indicator' = "green"
        /\ UNCHANGED <<input_text, output_text, separator_var, format_type,
                       dict_key_type, user_prefix, prefix_state, dict_state,
                       arg_items, ret>>

analyze_string ==
    LET input_string == strip(text_get(input_text))
        found_chars == {c \in ProblematicChars : contains(input_string, c)}
    IN  /\ pc' = "analyze_string"
        /\ IF input_string = <<>>
           THEN /\ message' = "NothingToAnalyze"
                /\ UNCHANGED status_indicator
           ELSE /\ message' = IF found_chars # {} THEN "ProblematicChars"
                                                  ELSE "NoProblematicChars"
                /\ status_indicator' = "green"
        /\ UNCHANGED <<input_text, output_text, separator_var, format_type,
                       dict_key_type, user_prefix, prefix_state, dict_state,
                       arg_items, ret>>

(***************************************************************************)
(* Event handlers                                                          *)
(***************************************************************************)
\* on_dict_key_type_change: the state and content of the prefix entry
dict_key_type_changed(fmt, key_type, text) ==
    IF fmt = "dict" /\ key_type = "user_defined"
    THEN [state |-> "normal", text |-> text]
    ELSE [state |-> "disabled", text |-> entry_delete("disabled", text)]

\* on_format_type_change without the reset of the key type
on_format_type_change_keeping_key(fmt) ==
    LET is_dict_selected == fmt = "dict"
        entry == dict_key_type_changed(fmt, dict_key_type, user_prefix)
    IN  /\ format_type' = fmt
        /\ dict_state' = IF is_dict_selected THEN "normal" ELSE "disabled"
        /\ prefix_state' = entry.state
        /\ user_prefix' = entry.text
        /\ UNCHANGED dict_key_type
        /\ message' = "none"
        /\ pc' = "on_format_type_change"
        /\ UNCHANGED <<input_text, output_text, separator_var,
                       status_indicator, arg_items, ret>>

\* the format radio buttons write format_type, whose trace runs
\* on_format_type_change; its write of dict_key_type runs
\* on_dict_key_type_change
on_format_type_change(fmt) ==
    LET is_dict_selected == fmt = "dict"
        entry == dict_key_type_changed(fmt, dict_key_type, user_prefix)
        reset == dict_key_type_changed(fmt, "none", entry.text)
    IN  /\ format_type' = fmt
        /\ dict_state' = IF is_dict_selected THEN "normal" ELSE "disabled"
        /\ IF is_dict_selected
           THEN /\ prefix_state' = entry.state
                /\ user_prefix' = entry.text
                /\ UNCHANGED dict_key_type
           ELSE /\ dict_key_type' = "none"
                /\ prefix_state' = reset.state
                /\ user_prefix' = reset.text
        /\ message' = "none"
        /\ pc' = "on_format_type_change"
        /\ UNCHANGED <<input_text, output_text, separator_var,
                       status_indicator, arg_items, ret>>

\* the key radio buttons, while enabled, write dict_key_type, whose trace
\* runs on_dict_key_type_change
on_dict_key_type_change(key_type) ==
    LET entry == dict_key_type_changed(format_type, key_type, user_prefix)
    IN  /\ dict_state = "normal"
        /\ dict_key_type' = key_type
        /\ prefix_state' = entry.state
        /\ user_prefix' = entry.text
        /\ message' = "none"
        /\ pc' = "on_dict_key_type_change"
        /\ UNCHANGED <<input_text, output_text, separator_var, format_type,
                       dict_state, status_indicator, arg_items, ret>>

(***************************************************************************)
(* The user's edits of the widgets                                         *)
(***************************************************************************)
SepTypes == {"auto", "space", "comma", "newline"}
ManualSepTypes == {"space", "comma", "newline"}
FormatTypes == {"none", "list", "dict", "tuple"}
DictKeyTypes == {"none", "index", "auto", "first_word", "user_defined"}

\* texts typed into the input area
TypedTexts ==
    { <<>>, <<" ">>, <<",">>, <<"/", "n">>,
      <<"a", " ", "n">>, <<"a", ",", "n">> }

\* texts typed into the prefix entry
PrefixTexts == { <<>>, <<" ">>, <<"k">> }

type_input(text) ==
    /\ input_text' = text
    /\ pc' = "edit"
    /\ message' = "none"
    /\ UNCHANGED <<output_text, separator_var, format_type, dict_key_type,
                   user_prefix, prefix_state, dict_state, status_indicator,
                   arg_items, ret>>

type_prefix(text) ==
    /\ prefix_state = "normal"
    /\ user_prefix' = text
    /\ pc' = "edit"
    /\ message' = "none"
    /\ UNCHANGED <<input_text, output_text, separator_var, format_type,
                   dict_key_type, prefix_state, dict_state, status_indicator,
                   arg_items, ret>>

select_separator(sep_type) ==
    /\ separator_var' = sep_type
    /\ pc' = "edit"
    /\ message' = "none"
    /\ UNCHANGED <<input_text, output_text, format_type, dict_key_type,
                   user_prefix, prefix_state, dict_state, status_indicator,
                   arg_items, ret>>

(***************************************************************************)
(* The application                                                         *)
(***************************************************************************)
Init ==
    /\ input_text = <<>>
    /\ output_text = <<>>
    /\ separator_var = "auto"
    /\ format_type = "none"
    /\ dict_key_type = "none"
    /\ user_prefix = <<>>
    /\ prefix_state = "disabled"
    /\ dict_state = "disabled"
    /\ status_indicator = "red"
    /\ message = "none"
    /\ pc = "init"
    /\ arg_items = <<>>
    /\ ret = <<>>

Next ==
    \/ \E text \in TypedTexts : type_input(text)
    \/ \E text \in PrefixTexts : type_prefix(text)
    \/ \E sep_type \in SepTypes : select_separator(sep_type)
    \/ \E fmt \in FormatTypes : on_format_type_change(fmt)
    \/ \E key_type \in DictKeyTypes : on_dict_key_type_change(key_type)
    \/ load_example
    \/ clear_input
    \/ clear_output
    \/ analyze_string
    \/ process_string

Spec == Init /\ [][Next]_vars

(***************************************************************************)
(* process_string on every input text and option selection                 *)
(***************************************************************************)
\* an output left by an earlier call
PriorOutput == item_count_line(1) \o <<"a">>

\* the option widgets as the event handlers leave them
OptionsAsHandled ==
    /\ dict_state = (IF format_type = "dict" THEN "normal" ELSE "disabled")
    /\ prefix_state = (IF format_type = "dict" /\ dict_key_type = "user_defined"
                       THEN "normal" ELSE "disabled")
    /\ format_type # "dict" => dict_key_type = "none"

InitProcess ==
    /\ input_text \in TextsUpTo(MaxProcLen)
    /\ output_text \in {<<>>, PriorOutput}
    /\ separator_var \in SepTypes
    /\ format_type \in FormatTypes
    /\ dict_key_type \in DictKeyTypes
    /\ user_prefix \in PrefixTexts
    /\ prefix_state \in {"normal", "disabled"}
    /\ dict_state \in {"normal", "disabled"}
    /\ OptionsAsHandled
    /\ status_indicator = "red"
    /\ message = "none"
    /\ pc = "edit"
    /\ arg_items = <<>>
    /\ ret = <<>>

NextProcess == process_string

SpecProcess == InitProcess /\ [][NextProcess]_vars

(***************************************************************************)
(* Direct calls of the string processing utilities                         *)
(***************************************************************************)
\* characters of the items given to the round trip
ItemChars == {"n", "/", ","}

\* items of 1..k of these characters
ItemsUpTo(k) == {t \in TextsUpTo(k) :
                     t # <<>> /\ \A i \in 1..Len(t) : t[i] \in ItemChars}

RECURSIVE ItemListsUpTo(_)
ItemListsUpTo(k) ==
    IF k = 0 THEN {<<>>}
    ELSE LET shorter == ItemListsUpTo(k - 1)
         IN  shorter \cup {Append(l, t) : l \in {m \in shorter : Len(m) = k - 1},
                                          t \in ItemsUpTo(MaxItemLen)}

InitCore ==
    /\ \/ /\ pc = "text"
          /\ input_text \in TextsUpTo(MaxLen)
          /\ separator_var \in SepTypes
          /\ arg_items = <<>>
       \/ /\ pc = "items"
          /\ input_text = <<>>
          /\ separator_var \in ManualSepTypes
          /\ arg_items \in ItemListsUpTo(MaxItems)
    /\ ret = <<>>
    /\ output_text = <<>>
    /\ format_type = "none"
    /\ dict_key_type = "none"
    /\ user_prefix = <<>>
    /\ prefix_state = "disabled"
    /\ dict_state = "disabled"
    /\ status_indicator = "red"
    /\ message = "none"

call_auto_detect_separator ==
    /\ pc = "text"
    /\ ret' = auto_detect_separator(input_text)
    /\ pc' = "auto_detect_separator"
    /\ UNCHANGED <<input_text, separator_var, arg_items, widgets>>

call_clean_and_split_string ==
    /\ pc = "text"
    /\ ret' = clean_and_split_string(input_text, separator_var)
    /\ pc' = "clean_and_split_string"
    /\ UNCHANGED <<input_text, separator_var, arg_items, widgets>>

\* join the items in the style of the separator choice, then tokenize
call_join_and_split ==
    /\ pc = "items"
    /\ input_text' = format_with_separator_style(arg_items, "none", separator_var)
    /\ ret' = clean_and_split_string(input_text', separator_var)
    /\ pc' = "join_and_split"
    /\ UNCHANGED <<separator_var, arg_items, widgets>>

NextCore ==
    \/ call_auto_detect_separator
    \/ call_clean_and_split_string
    \/ call_join_and_split

SpecCore == InitCore /\ [][NextCore]_vars

(***************************************************************************)
(* Properties of process_string                                            *)
(***************************************************************************)
\* the input string process_string works on, its items and their count
InputString == strip(text_get(input_text))
Items == clean_and_split_string(InputString, separator_var)
ContentCount == count_actual_content(Items)

\* s begins with t
StartsWith(s, t) == Len(s) >= Len(t) /\ SubSeq(s, 1, Len(t)) = t

\* s without its first k characters
Drop(s, k) == SubSeq(s, k + 1, Len(s))

\* the text after the item count line of the output area
Body == Drop(output_text, Len(item_count_line(ContentCount)))

\* join string of a separator choice and of a detected separator character
JoinStringOfChoice(sep_type) ==
    IF sep_type = "comma" THEN <<",", " ">>
    ELSE IF sep_type = "newline" THEN <<"\n">> ELSE <<" ">>

JoinStringOfChar(c) ==
    IF c = "," THEN <<",", " ">> ELSE IF c = "\n" THEN <<"\n">> ELSE <<" ">>

\* position in the joined text before the first character of item i
RECURSIVE OffsetOf(_, _, _)
OffsetOf(items, js, i) ==
    IF i = 1 THEN 0
    ELSE OffsetOf(items, js, i - 1) + Len(items[i - 1]) + Len(js)

\* text is the items in order with js between neighbours and nothing else
IsJoinOf(text, js, items) ==
    LET n == Len(items)
    IN  /\ n > 0
        /\ Len(text) = OffsetOf(items, js, n) + Len(items[n])
        /\ \A i \in 1..n :
               SubSeq(text, OffsetOf(items, js, i) + 1,
                      OffsetOf(items, js, i) + Len(items[i])) = items[i]
        /\ \A i \in 2..n :
               SubSeq(text, OffsetOf(items, js, i) - Len(js) + 1,
                      OffsetOf(items, js, i)) = js

\* C1: with format dict, key type user_defined and a prefix that is empty
\* after trimming, process_string on an input that has items reports
\* MissingPrefix and leaves the output area exactly as it was.
C1_MissingPrefixNoOutput ==
    [][(/\ process_string
        /\ Items # <<>>
        /\ format_type = "dict"
        /\ dict_key_type = "user_defined"
        /\ strip(user_prefix) = <<>>)
       => (message' = "MissingPrefix" /\ output_text' = output_text)]_vars

\* C2 as stated: with format none and separator auto the body is the items
\* joined with the join string of the detected separator.
C2_AutoJoinsWithDetected ==
    (/\ pc = "process_string"
     /\ format_type = "none"
     /\ separator_var = "auto"
     /\ Items # <<>>)
    => /\ StartsWith(output_text, item_count_line(ContentCount))
       /\ Body = join(JoinStringOfChar(auto_detect_separator(clean(InputString))),
                      Items)

\* C2 as amended: with format none and separator auto the body is empty, the
\* output is the item count line and nothing more.
C2_AutoBodyEmpty ==
    (/\ pc = "process_string"
     /\ format_type = "none"
     /\ separator_var = "auto"
     /\ Items # <<>>)
    => /\ output_text = item_count_line(ContentCount)
       /\ message = "none"

C2_Witness ==
    /\ pc = "process_string"
    /\ format_type = "none"
    /\ separator_var = "auto"
    /\ input_text = <<"a", ",", "n">>
    /\ Items = << <<"a">>, <<"n">> >>
    /\ output_text = ItemCountLabel \o <<"2", "\n", "\n">>

\* C3: on an input that is non-empty after trimming process_string either
\* reports an error kind and writes nothing, or reports nothing and writes
\* "Item count: <n>", a blank line and the body, n being the content count
\* of the items; never both, never neither.
C3_ErrorOrOutput ==
    [][(process_string /\ InputString # <<>>)
       => \/ /\ message' \in {"NoItemsFound", "MissingPrefix", "InternalError"}
             /\ output_text' = output_text
          \/ /\ message' = "none"
             /\ ContentCount >= 0
             /\ StartsWith(output_text', item_count_line(ContentCount))]_vars

\* C4: a process_string call refused for empty input or for lack of items
\* leaves the output area as it was, and every other call replaces its
\* content by the result of that call, so that the area shows the result of
\* the latest call not refused for one of the two reasons.
C4_RefusedKeepsOutput ==
    [][(pc' = "process_string" /\ process_string)
       => IF InputString = <<>> \/ Items = <<>>
          THEN /\ message' = (IF InputString = <<>> THEN "EmptyInput"
                                                     ELSE "NoItemsFound")
               /\ output_text' = output_text
          ELSE /\ message' \notin {"EmptyInput", "NoItemsFound"}
               /\ StartsWith(output_text', item_count_line(ContentCount))]_vars

C4_Witness ==
    /\ pc = "process_string"
    /\ message = "NoItemsFound"
    /\ input_text = <<"/", "n">>
    /\ output_text = item_count_line(2) \o <<"a", ",", " ", "n">>

C6_ManualJoin ==
    (/\ pc = "process_string"
     /\ format_type = "none"
     /\ separator_var \in ManualSepTypes
     /\ Items # <<>>)
    => /\ StartsWith(output_text, item_count_line(ContentCount))
       /\ IsJoinOf(Body, JoinStringOfChoice(separator_var), Items)

C6_Witness ==
    /\ pc = "process_string"
    /\ format_type = "none"
    /\ separator_var = "comma"
    /\ input_text = <<"a", " ", "n">>
    /\ output_text = item_count_line(2) \o <<"a", ",", " ", "n">>

(***************************************************************************)
(* Properties of the string processing utilities                           *)
(***************************************************************************)
\* the text holds the marker "/n"
HasMarker(text) ==
    \E i \in 1..(Len(text) - 1) : text[i] = "/" /\ text[i + 1] = "n"

\* the characters of all items, in order
RECURSIVE Flatten(_)
Flatten(items) ==
    IF items = <<>> THEN <<>> ELSE Head(items) \o Flatten(Tail(items))

\* number of positions of text that hold c
Occurrences(text, c) == Len(SelectSeq(text, LAMBDA x : x = c))

\* the items occur in text one after the other, without overlap, the first
\* at or after position from
RECURSIVE OccurInOrder(_, _, _)
OccurInOrder(items, text, from) ==
    IF items = <<>> THEN TRUE
    ELSE LET item == Head(items)
             starts == {p \in from..(Len(text) - Len(item) + 1) :
                            SubSeq(text, p, p + Len(item) - 1) = item}
         IN  /\ starts # {}
             /\ OccurInOrder(Tail(items), text,
                             (CHOOSE p \in starts : \A q \in starts : p <= q)
                             + Len(item))

\* s is t with some characters left out
RECURSIVE IsSubsequence(_, _)
IsSubsequence(s, t) ==
    IF s = <<>> THEN TRUE
    ELSE IF t = <<>> THEN FALSE
    ELSE IF Head(s) = Head(t) THEN IsSubsequence(Tail(s), Tail(t))
    ELSE IsSubsequence(s, Tail(t))

NonSpace(text) == SelectSeq(text, LAMBDA x : x \notin Whitespace)

\* C7 as stated: joining items that are non-empty and free of whitespace in
\* the style of a manual separator choice and tokenizing the result under
\* that choice gives the items back.
C7_RoundTrip ==
    pc = "join_and_split" => ret = arg_items

\* C7 as amended: the items come back exactly when no item holds the marker
\* "/n" and the choice is space or newline or there is at most one item.
C7_RoundTripAmended ==
    pc = "join_and_split"
    => (ret = arg_items
        <=> /\ \A i \in 1..Len(arg_items) : ~HasMarker(arg_items[i])
            /\ separator_var \in {"space", "newline"} \/ Len(arg_items) <= 1)

C7_Witness ==
    /\ pc = "join_and_split"
    /\ separator_var = "newline"
    /\ arg_items = << <<"n", ",">>, <<"/">> >>
    /\ input_text = <<"n", ",", "\n", "/">>
    /\ ret = arg_items

\* C8: under a manual separator choice the items are the whitespace split
\* of the normalized text, the same for space, comma and newline, and every
\* comma of the input stays inside an item.
C8_ManualSplitsOnWhitespace ==
    (pc = "clean_and_split_string" /\ separator_var \in ManualSepTypes)
    => /\ \A sep_type \in ManualSepTypes :
              ret = clean_and_split_string(input_text, sep_type)
       /\ \A i \in 1..Len(ret) :
              ret[i] # <<>> /\ \A j \in 1..Len(ret[i]) : ret[i][j] \notin Whitespace
       /\ join(<<" ">>, ret) = clean(input_text)
       /\ Occurrences(Flatten(ret), ",") = Occurrences(input_text, ",")

C8_Witness ==
    /\ pc = "clean_and_split_string"
    /\ separator_var = "comma"
    /\ input_text = <<"a", ",", "n", " ">>
    /\ ret = << <<"a", ",", "n">> >>

\* C9: every item of the tokenizer is non-empty, has no whitespace at
\* either end, is not whitespace only, and the items are in their order of
\* appearance in the input.
C9_ItemsTrimmedInOrder ==
    pc = "clean_and_split_string"
    => /\ \A i \in 1..Len(ret) :
              /\ ret[i] # <<>>
              /\ ret[i][1] \notin Whitespace
              /\ ret[i][Len(ret[i])] \notin Whitespace
              /\ \E j \in 1..Len(ret[i]) : ret[i][j] \notin Whitespace
       /\ OccurInOrder(ret, clean(input_text), 1)
       /\ IsSubsequence(NonSpace(Flatten(ret)), input_text)

C9_Witness ==
    /\ pc = "clean_and_split_string"
    /\ separator_var = "auto"
    /\ input_text = <<" ", "n", ",", "a">>
    /\ ret = << <<"n">>, <<"a">> >>

\* C10: detection gives comma when the text has a comma and at least as
\* many commas as newlines, else newline when it has a newline, else space.
C10_DetectionRule ==
    pc = "auto_detect_separator"
    => LET commas == Occurrences(input_text, ",")
           newlines == Occurrences(input_text, "\n")
       IN  /\ (commas >= 1 /\ commas >= newlines) => ret = ","
           /\ (~(commas >= 1 /\ commas >= newlines) /\ newlines >= 1)
                  => ret = "\n"
           /\ (commas = 0 /\ newlines = 0) => ret = " "
           /\ ret \in {",", "\n", " "}

C10_Witness ==
    /\ pc = "auto_detect_separator"
    /\ input_text = <<",", "\n">>
    /\ ret = ","

(***************************************************************************)
(* Direct calls of format_as_dict                                          *)
(***************************************************************************)
MaxWords == 2        \* most words of an item given to format_as_dict
MaxDictItems == 2    \* longest item list given to format_as_dict

\* the words of such items
Words == { <<"a">>, <<"n">> }

\* items of 1..k words with one space between neighbours
RECURSIVE WordItemsUpTo(_)
WordItemsUpTo(k) ==
    IF k = 1 THEN Words
    ELSE LET shorter == WordItemsUpTo(k - 1)
         IN  shorter \cup {t \o <<" ">> \o w : t \in shorter, w \in Words}

\* lists of 1..k such items
RECURSIVE WordItemListsUpTo(_)
WordItemListsUpTo(k) ==
    IF k = 1 THEN {<<t>> : t \in WordItemsUpTo(MaxWords)}
    ELSE LET shorter == WordItemListsUpTo(k - 1)
         IN  shorter \cup {Append(l, t) : l \in shorter,
                                          t \in WordItemsUpTo(MaxWords)}

\* contents of the prefix entry
DictPrefixes == PrefixTexts \cup { <<" ", "k">> }

InitDict ==
    /\ pc = "dict_items"
    /\ arg_items \in WordItemListsUpTo(MaxDictItems)
    /\ format_type = "dict"
    /\ dict_key_type \in DictKeyTypes
    /\ user_prefix \in DictPrefixes
    /\ dict_key_type # "user_defined" => user_prefix = <<>>
    /\ prefix_state = (IF dict_key_type = "user_defined" THEN "normal"
                                                         ELSE "disabled")
    /\ dict_state = "normal"
    /\ input_text = <<>>
    /\ output_text = <<>>
    /\ separator_var = "auto"
    /\ status_indicator = "red"
    /\ message = "none"
    /\ ret = <<>>

call_format_as_dict ==
    LET r == format_as_dict(arg_items, dict_key_type, user_prefix)
    IN  /\ pc = "dict_items"
        /\ ret' = r.value
        /\ message' = r.message
        /\ pc' = "format_as_dict"
        /\ UNCHANGED <<input_text, output_text, separator_var, format_type,
                       dict_key_type, user_prefix, prefix_state, dict_state,
                       status_indicator, arg_items>>

NextDict == call_format_as_dict

SpecDict == InitDict /\ [][NextDict]_vars

\* text is "{", the entries with ", " between neighbours, and "}"
IsDictOf(text, entries) ==
    /\ Len(text) >= 2
    /\ text[1] = "{"
    /\ text[Len(text)] = "}"
    /\ IsJoinOf(SubSeq(text, 2, Len(text) - 1), <<",", " ">>, entries)

\* "<key>": "<value>"
Pair(key, value) ==
    <<"\"">> \o key \o <<"\"">> \o <<":", " ">> \o <<"\"">> \o value \o <<"\"">>

\* the first word of an item and the words after it, with single spaces
FirstWord(item) ==
    LET t == lstrip(item)
    IN  SubSeq(t, 1, first_space(t) - 1)

RestWords(item) ==
    LET t == lstrip(item)
    IN  sub_spaces(strip(SubSeq(t, first_space(t), Len(t))))

\* key and value the key strategy gives to the item at position i (from 1)
KeyOf(items, i, key_type, prefix) ==
    IF key_type = "index" THEN str(i - 1)
    ELSE IF key_type = "auto" THEN <<"i", "t", "e", "m", "_">> \o str(i)
    ELSE IF key_type = "user_defined" THEN strip(prefix) \o <<"_">> \o str(i)
    ELSE FirstWord(items[i])

ValueOf(items, i, key_type) ==
    IF key_type = "first_word" /\ RestWords(items[i]) # <<>>
    THEN RestWords(items[i]) ELSE items[i]

\* C11: for the key strategies index, auto, first_word and user_defined with
\* a non-empty prefix the dictionary has exactly one pair per item, in item
\* order, the pair at position i built from item i with key i-1, "item_i",
\* "<prefix>_i" or the item's first word.
C11_OnePairPerItem ==
    (/\ pc = "format_as_dict"
     /\ dict_key_type \in {"index", "auto", "first_word", "user_defined"}
     /\ dict_key_type = "user_defined" => strip(user_prefix) # <<>>)
    => /\ message = "none"
       /\ IsDictOf(ret, [i \in 1..Len(arg_items) |->
                            Pair(KeyOf(arg_items, i, dict_key_type, user_prefix),
                                 ValueOf(arg_items, i, dict_key_type))])

C11_Witness ==
    /\ pc = "format_as_dict"
    /\ dict_key_type = "user_defined"
    /\ user_prefix = <<" ", "k">>
    /\ arg_items = << <<"a">>, <<"n", " ", "a">> >>
    /\ ret = <<"{">> \o <<"\"", "k", "_", "1", "\"", ":", " ", "\"", "a", "\"">>
             \o <<",", " ">>
             \o <<"\"", "k", "_", "2", "\"", ":", " ", "\"", "n", " ", "a", "\"">>
             \o <<"}">>

\* the list of the items in double quotes
QuotedItems(items) ==
    [i \in 1..Len(items) |-> <<"\"">> \o items[i] \o <<"\"">>]

\* text is open, the entries with ", " between neighbours, and close
IsBracketed(text, open, close, entries) ==
    /\ Len(text) >= 2
    /\ text[1] = open
    /\ text[Len(text)] = close
    /\ IsJoinOf(SubSeq(text, 2, Len(text) - 1), <<",", " ">>, entries)

\* C12: with format list the body is "[", the items in double quotes joined
\* with ", ", and "]", under every separator choice, the manual ones
\* included; with format tuple it is the same text inside "(" and ")".
C12_ListAndTupleBody ==
    (/\ pc = "process_string"
     /\ format_type \in {"list", "tuple"}
     /\ Items # <<>>)
    => /\ message = "none"
       /\ StartsWith(output_text, item_count_line(ContentCount))
       /\ IF format_type = "list"
          THEN IsBracketed(Body, "[", "]", QuotedItems(Items))
          ELSE IsBracketed(Body, "(", ")", QuotedItems(Items))

C12_Witness ==
    /\ pc = "process_string"
    /\ format_type = "list"
    /\ separator_var = "newline"
    /\ input_text = <<"a", " ", "n">>
    /\ output_text = item_count_line(2)
                     \o <<"[", "\"", "a", "\"", ",", " ", "\"", "n", "\"", "]">>

\* number of words of an item
WordCount(item) ==
    Cardinality({j \in 1..Len(item) :
                     /\ item[j] \notin Whitespace
                     /\ j = 1 \/ item[j - 1] \in Whitespace})

\* C13: under the first_word strategy the key of every item is its first
\* word and its value is the words after it joined with single spaces when
\* the item has more than one word, the whole item when it has one word.
C13_FirstWordPairs ==
    (pc = "format_as_dict" /\ dict_key_type = "first_word")
    => IsDictOf(ret, [i \in 1..Len(arg_items) |->
                         IF WordCount(arg_items[i]) > 1
                         THEN Pair(FirstWord(arg_items[i]),
                                   RestWords(arg_items[i]))
                         ELSE Pair(arg_items[i], arg_items[i])])

C13_Witness ==
    /\ pc = "format_as_dict"
    /\ dict_key_type = "first_word"
    /\ arg_items = << <<"a", " ", "n">>, <<"n">> >>
    /\ ret = <<"{">> \o <<"\"", "a", "\"", ":", " ", "\"", "n", "\"">>
             \o <<",", " ">>
             \o <<"\"", "n", "\"", ":", " ", "\"", "n", "\"">>
             \o <<"}">>

\* C14: under auto the normalized text has no newline, detection on it
\* never gives newline, and the text is split on the comma exactly when
\* the normalized text has a comma and on the space otherwise.
C14_AutoNeverNewline ==
    (pc = "clean_and_split_string" /\ separator_var = "auto")
    => LET cleaned == clean(input_text)
       IN  /\ Occurrences(cleaned, "\n") = 0
           /\ auto_detect_separator(cleaned) # "\n"
           /\ auto_detect_separator(cleaned) = ","
                  <=> Occurrences(cleaned, ",") > 0
           /\ ret = strip_nonempty(split_on(cleaned,
                        IF Occurrences(cleaned, ",") > 0 THEN "," ELSE " "))
           /\ Occurrences(cleaned, ",") > 0
                  => Occurrences(Flatten(ret), ",") = 0
           /\ Occurrences(cleaned, ",") = 0 => join(<<" ">>, ret) = cleaned

C14_Witness ==
    /\ pc = "clean_and_split_string"
    /\ separator_var = "auto"
    /\ input_text = <<"a", "\n", "\n", "n">>
    /\ ret = << <<"a">>, <<"n">> >>

(***************************************************************************)
(* Properties of the widgets                                               *)
(***************************************************************************)
\* C15: the indicator starts red; it turns green only by analyze_string on
\* a non-empty input; clear_input and a load_example that replaces the
\* input text turn it red; process_string and analyze_string on an empty
\* input leave it as it is.
C15_GreenOnlyAnalyzed ==
    /\ status_indicator = "red"
    /\ [][/\ (status_indicator' = "green" /\ status_indicator # "green")
              => (pc' = "analyze_string" /\ InputString # <<>>)
          /\ pc' = "clear_input" => status_indicator' = "red"
          /\ (pc' = "load_example" /\ message' = "none")
                 => status_indicator' = "red"
          /\ (pc' \in {"load_example", "clear_input"}
              /\ input_text' # input_text) => status_indicator' = "red"
          /\ pc' = "process_string" => status_indicator' = status_indicator
          /\ (pc' = "analyze_string" /\ InputString = <<>>)
                 => status_indicator' = status_indicator]_vars

C15_Witness ==
    /\ status_indicator = "green"
    /\ pc = "process_string"
    /\ input_text = <<"a", " ", "n">>
    /\ output_text # <<>>

\* C16: whenever the format type is not dict the key type is none and the
\* prefix entry is disabled; the prefix entry is enabled exactly when the
\* format type is dict and the key type is user_defined.
C16_KeyTypeAndPrefixEntry ==
    /\ format_type # "dict"
           => (dict_key_type = "none" /\ prefix_state = "disabled")
    /\ prefix_state = "normal"
           <=> (format_type = "dict" /\ dict_key_type = "user_defined")
    /\ prefix_state \in {"normal", "disabled"}

C16_Witness ==
    /\ pc = "on_format_type_change"
    /\ format_type = "tuple"
    /\ dict_key_type = "none"
    /\ prefix_state = "disabled"
    /\ user_prefix = <<"k">>

====
